---- MODULE Spec2Model ----
(***************************************************************************)
(* Retirement planning page (src/app.py): the Retirement record, its       *)
(* three calculations and one run of the Streamlit script that builds the  *)
(* record from the form and displays the results.                          *)
(*                                                                         *)
(* Python floats are modelled as exact non-negative rationals n/d whose    *)
(* numerator and denominator are unbounded naturals (little-endian digit   *)
(* sequences), so that (1 + i) ** n with n = years * 12 is computed        *)
(* exactly; float rounding is not modelled.                                *)
(***************************************************************************)
EXTENDS Integers, Sequences, FiniteSets, TLC

\* ------------------------------------------------------------------------
\* Unbounded naturals: digit sequences, least significant digit first,
\* no leading zero digit (zero is the empty sequence).
\* ------------------------------------------------------------------------
Base == 10 * 100

Digit(a, j) == IF j >= 1 /\ j <= Len(a) THEN a[j] ELSE 0

Max(x, y) == IF x >= y THEN x ELSE y

BigTrim(a) ==
    LET nz == {j \in 1..Len(a) : a[j] # 0}
    IN  IF nz = {} THEN <<>>
        ELSE SubSeq(a, 1, CHOOSE j \in nz : \A k \in nz : k <= j)

\* a machine integer 0 <= k < 2^31 as digits
BigOf(k) ==
    BigTrim(<<k % Base, (k \div Base) % Base,
              (k \div (Base * Base)) % Base, k \div (Base * Base * Base)>>)

\* carry into digit j of a + b
Carry(a, b, j) ==
    \E i \in 1..(j - 1) :
        /\ Digit(a, i) + Digit(b, i) >= Base
        /\ \A k \in (i + 1)..(j - 1) : Digit(a, k) + Digit(b, k) = Base - 1

BigAdd(a, b) ==
    BigTrim([j \in 1..(Max(Len(a), Len(b)) + 1) |->
                (Digit(a, j) + Digit(b, j) + (IF Carry(a, b, j) THEN 1 ELSE 0)) % Base])

\* borrow taken from digit j of a - b
Borrow(a, b, j) ==
    \E i \in 1..(j - 1) :
        /\ Digit(a, i) < Digit(b, i)
        /\ \A k \in (i + 1)..(j - 1) : Digit(a, k) = Digit(b, k)

\* a - b for a >= b
BigSub(a, b) ==
    BigTrim([j \in 1..Len(a) |->
                (Digit(a, j) - Digit(b, j) - (IF Borrow(a, b, j) THEN 1 ELSE 0) + Base) % Base])

BigLess(a, b) ==
    \/ Len(a) < Len(b)
    \/ /\ Len(a) = Len(b)
       /\ \E i \in 1..Len(a) : a[i] < b[i] /\ \A k \in (i + 1)..Len(a) : a[k] = b[k]

\* sum of a[i] * b[k + 1 - i] over i in lo..hi: column k of the product
RECURSIVE ColSum(_, _, _, _, _)
ColSum(a, b, k, lo, hi) ==
    IF lo > hi THEN 0
    ELSE IF lo = hi THEN a[lo] * b[k + 1 - lo]
    ELSE LET mid == (lo + hi) \div 2
         IN  ColSum(a, b, k, lo, mid) + ColSum(a, b, k, mid + 1, hi)

Col(a, b, k) ==
    ColSum(a, b, k, Max(1, k + 1 - Len(b)), IF k <= Len(a) THEN k ELSE Len(a))

\* the columns of the product, split into digits and added up
BigMulV(a, b) ==
    LET L == Len(a) + Len(b)
        cols == [k \in 1..L |-> Col(a, b, k)]
        part(t, div) == [j \in 1..(L + t) |->
                            IF j <= t THEN 0 ELSE (cols[j - t] \div div) % Base]
    IN  BigAdd(BigAdd(BigTrim(part(0, 1)), BigTrim(part(1, Base))),
               BigAdd(BigTrim(part(2, Base * Base)), BigTrim(part(3, Base * Base * Base))))

BigMul(a, b) == IF a = <<>> \/ b = <<>> THEN <<>> ELSE BigMulV(a, b)

\* a ** k by repeated squaring
RECURSIVE BigPow(_, _)
BigPow(a, k) ==
    IF k = 0 THEN BigOf(1)
    ELSE LET h == BigPow(a, k \div 2)
             sq == BigMul(h, h)
         IN  IF k % 2 = 1 THEN BigMul(sq, a) ELSE sq

\* ------------------------------------------------------------------------
\* Floats as exact rationals [n, d], d # 0; sign is kept apart (neg).
\* ------------------------------------------------------------------------
RECURSIVE Gcd(_, _)
Gcd(x, y) == IF y = 0 THEN x ELSE Gcd(y, x % y)

\* the float n / d of two machine integers n >= 0, d > 0, in lowest terms
Rat(n, d) == LET g == Gcd(n, d) IN [n |-> BigOf(n \div g), d |-> BigOf(d \div g)]

RatIsZero(a) == a.n = <<>>

RatMul(a, b) == [n |-> BigMul(a.n, b.n), d |-> BigMul(a.d, b.d)]

\* a / b for b # 0
RatDiv(a, b) == [n |-> BigMul(a.n, b.d), d |-> BigMul(a.d, b.n)]

RatLeq(a, b) == ~BigLess(BigMul(b.n, a.d), BigMul(a.n, b.d))

RatEq(a, b) == BigMul(a.n, b.d) = BigMul(b.n, a.d)

\* a - b for a >= b
RatSub(a, b) == [n |-> BigSub(BigMul(a.n, b.d), BigMul(b.n, a.d)), d |-> BigMul(a.d, b.d)]

RatPow(a, k) == [n |-> BigPow(a.n, k), d |-> BigPow(a.d, k)]

\* a - b of any sign: the magnitude and whether the difference is negative
RatDiff(a, b) ==
    IF RatLeq(b, a) THEN [neg |-> FALSE, abs |-> RatSub(a, b)]
    ELSE [neg |-> TRUE, abs |-> RatSub(b, a)]

\* ------------------------------------------------------------------------
\* Calendar dates (datetime.date) and their ordering.
\* ------------------------------------------------------------------------
Date(y, m, d) == [year |-> y, month |-> m, day |-> d]

IsLeap(y) == (y % 4 = 0 /\ y % 100 # 0) \/ y % 400 = 0

DaysInMonth(y, m) ==
    IF m = 2 THEN (IF IsLeap(y) THEN 29 ELSE 28)
    ELSE IF m \in {4, 6, 9, 11} THEN 30 ELSE 31

\* the wall clock one day later
NextDay(t) ==
    IF t.day < DaysInMonth(t.year, t.month) THEN Date(t.year, t.month, t.day + 1)
    ELSE IF t.month < 12 THEN Date(t.year, t.month + 1, 1)
    ELSE Date(t.year + 1, 1, 1)

\* Python's tuple comparison (m1, d1) < (m2, d2)
TupleLess(m1, d1, m2, d2) == m1 < m2 \/ (m1 = m2 /\ d1 < d2)

\* date.__le__
DateLeq(a, b) ==
    \/ a.year < b.year
    \/ a.year = b.year /\ ~TupleLess(b.month, b.day, a.month, a.day)

\* ------------------------------------------------------------------------
\* Bounds of the model and the values the inputs are drawn from.
\* ------------------------------------------------------------------------
MaxTicks == 3
MaxRetireAge == 32
MinRetireAge == 30

ClockStarts == {Date(2024, 2, 27), Date(2024, 12, 30)}

FutureDob == Date(2025, 6, 1)

FormExpenses == {0, 50000}
FormDobs == {Date(1992, 2, 29), Date(1993, 2, 28), Date(1993, 3, 1),
             Date(1993, 12, 31), Date(1994, 1, 1), Date(1994, 2, 28), FutureDob}
FormRetireAges == MinRetireAge .. MaxRetireAge
FormInflationRates == {0, 8}
FormWithdrawalRates == {0, 3}
FormReturnRates == {0, 100}

\* values of the rates the monotonicity statements range over (all in 0..100)
RateSamples == {0, 3, 4, 8, 12, 100}

\* keyword values a caller other than the form may pass to Retirement(...)
AnyExpenses == {-1, 0, 50000}
AnyDobs == {Date(2022, 2, 28), Date(2022, 3, 1), FutureDob}
AnyRetireAges == {2, 3, 4}
AnyRates == {-1, 0, 8, 101}

\* ------------------------------------------------------------------------
\* class Retirement
\* ------------------------------------------------------------------------
Null == [none |-> TRUE]

\* an integer local of the script that no statement has bound yet
Unbound == 0 - 1

Ok(v) == [ok |-> TRUE, val |-> v]
Raise(e) == [ok |-> FALSE, exc |-> e]

\* pydantic's validation of the keyword values against the Field bounds;
\* today_at_def is date.today() as evaluated when the class body ran
Validate(kw, today_at_def) ==
    /\ kw.monthly_expense > 0
    /\ DateLeq(kw.dob, today_at_def)
    /\ kw.inflation_rate >= 0 /\ kw.inflation_rate <= 100
    /\ kw.withdrawal_rate >= 0 /\ kw.withdrawal_rate <= 100
    /\ kw.expected_return >= 0 /\ kw.expected_return <= 100

\* get_age with the birthday itself counted as not yet reached
get_age_strict(self, today) ==
    today.year - self.dob.year
      - (IF ~TupleLess(self.dob.month, self.dob.day, today.month, today.day) THEN 1 ELSE 0)

get_age(self, today) ==
    today.year - self.dob.year
      - (IF TupleLess(today.month, today.day, self.dob.month, self.dob.day) THEN 1 ELSE 0)

\* get_years_to_retire that lets a horizon of zero years through
get_years_to_retire_zero(self, today) ==
    LET age == get_age(self, today)
        years_to_retire == self.retire_age - age
    IN  IF years_to_retire < 0 THEN Raise("ValueError") ELSE Ok(years_to_retire)

get_years_to_retire(self, today) ==
    LET age == get_age(self, today)
        years_to_retire == self.retire_age - age
    IN  IF years_to_retire <= 0 THEN Raise("ValueError") ELSE Ok(years_to_retire)

get_total_corpus(self, today) ==
    LET annual_expense == Rat(self.monthly_expense * 12, 1)
        ytr == get_years_to_retire(self, today)
    IN  IF ~ytr.ok THEN ytr
        ELSE LET future_value ==
                     RatMul(annual_expense,
                            RatPow(Rat(100 + self.inflation_rate, 100), ytr.val))
                 rate == Rat(self.withdrawal_rate, 100)
             IN  IF RatIsZero(rate) THEN Raise("ZeroDivisionError")
                 ELSE Ok(RatDiv(future_value, rate))

\* lines 33 and 36-38: the contribution from n months and the corpus m
sip_of(self, n, m) ==
    LET i == Rat(self.expected_return, 1200)
        one_i == Rat(1200 + self.expected_return, 1200)
        x == RatSub(RatPow(one_i, n), Rat(1, 1))
    IN  IF RatIsZero(i) THEN Raise("ZeroDivisionError")
        ELSE LET y == RatMul(RatDiv(x, i), one_i)
             IN  IF RatIsZero(y) THEN Raise("ZeroDivisionError")
                 ELSE Ok(RatDiv(m, y))

\* today_n is the clock as read by line 34, today_m as read by line 35
estimate_sip(self, today_n, today_m) ==
    LET ytr == get_years_to_retire(self, today_n)
    IN  IF ~ytr.ok THEN ytr
        ELSE LET m == get_total_corpus(self, today_m)
             IN  IF ~m.ok THEN m ELSE sip_of(self, ytr.val * 12, m.val)

\* ------------------------------------------------------------------------
\* One run of the script: the state of the page and of the interpreter.
\* ------------------------------------------------------------------------
VARIABLES
    clock,              \* the wall-clock date, what date.today() returns
    ticks,              \* midnights passed so far
    pc,                 \* the line the script is at
    today_at_def,       \* date.today() as evaluated in the class body (line 8)
    widgets,            \* what the six inputs returned (lines 43-48)
    retirement,         \* the Retirement object (line 51), or Null
    calls,              \* every get_age call of the run: the date read and the age
    years_to_retire,    \* line 62
    total_corpus,       \* line 63
    sip_n,              \* n of estimate_sip (line 34)
    sip_amount,         \* line 64
    total_investement,  \* line 65
    intrest,            \* line 66
    page,               \* "running", "results", "error" (st.error) or "exception"
    exc                 \* the exception that ended the run, or "none"

vars == <<clock, ticks, pc, today_at_def, widgets, retirement, calls, years_to_retire,
          total_corpus, sip_n, sip_amount, total_investement, intrest, page, exc>>

locals == <<years_to_retire, total_corpus, sip_n, sip_amount, total_investement, intrest>>

Fresh ==
    /\ pc = "start"
    /\ today_at_def = Null
    /\ widgets = Null
    /\ retirement = Null
    /\ calls = <<>>
    /\ years_to_retire = Unbound
    /\ total_corpus = Null
    /\ sip_n = Unbound
    /\ sip_amount = Null
    /\ total_investement = Null
    /\ intrest = Null
    /\ page = "running"
    /\ exc = "none"

Init ==
    /\ clock \in ClockStarts
    /\ ticks = 0
    /\ Fresh

\* midnight passes
Tick ==
    /\ ticks < MaxTicks
    /\ ticks' = ticks + 1
    /\ clock' = NextDay(clock)
    /\ UNCHANGED <<pc, today_at_def, widgets, retirement, calls, locals, page, exc>>

\* the class body runs (line 8 reads the clock) and the inputs return values
StartWith(expenses, dobs, ages, inflations, withdrawals, returns) ==
    /\ pc = "start"
    /\ \E me \in expenses, d \in dobs, ra \in ages,
          ir \in inflations, wr \in withdrawals, er \in returns :
           widgets' = [monthly_expense |-> me, dob |-> d, retire_age |-> ra,
                       inflation_rate |-> ir, withdrawal_rate |-> wr,
                       expected_return |-> er]
    /\ today_at_def' = clock
    /\ pc' = "line51"
    /\ UNCHANGED <<clock, ticks, retirement, calls, locals, page, exc>>

\* lines 6-12 and 43-48: the values the form can return
ScriptStart ==
    StartWith(FormExpenses, FormDobs, FormRetireAges,
              FormInflationRates, FormWithdrawalRates, FormReturnRates)

\* lines 6-12 with the keyword values of line 51 supplied by any caller
CallerStart ==
    StartWith(AnyExpenses, AnyDobs, AnyRetireAges, AnyRates, AnyRates, AnyRates)

\* an exception e leaves the statement at pc: lines 61, 104-105 catch it inside
\* the try block when it is a ValueError, anything else ends the script
Except(e, in_try) ==
    /\ exc' = e
    /\ page' = IF in_try /\ e = "ValueError" THEN "error" ELSE "exception"
    /\ pc' = "done"

\* lines 51-58
Construct ==
    /\ pc = "line51"
    /\ IF Validate(widgets, today_at_def)
       THEN /\ retirement' = widgets
            /\ pc' = "line62"
            /\ UNCHANGED <<page, exc>>
       ELSE /\ Except("ValidationError", FALSE)
            /\ UNCHANGED retirement
    /\ UNCHANGED <<clock, ticks, today_at_def, widgets, calls, locals>>

\* get_age is entered: the clock is read (line 15)
Read == Append(calls, [today |-> clock, age |-> get_age(retirement, clock)])

\* line 62
Line62 ==
    /\ pc = "line62"
    /\ calls' = Read
    /\ \E r \in {get_years_to_retire(retirement, clock)} :
           IF r.ok
           THEN /\ years_to_retire' = r.val
                /\ pc' = "line63"
                /\ UNCHANGED <<page, exc>>
           ELSE /\ Except(r.exc, TRUE)
                /\ UNCHANGED years_to_retire
    /\ UNCHANGED <<clock, ticks, today_at_def, widgets, retirement, total_corpus,
                   sip_n, sip_amount, total_investement, intrest>>

\* line 63
Line63 ==
    /\ pc = "line63"
    /\ calls' = Read
    /\ \E r \in {get_total_corpus(retirement, clock)} :
           IF r.ok
           THEN /\ total_corpus' = r.val
                /\ pc' = "line34"
                /\ UNCHANGED <<page, exc>>
           ELSE /\ Except(r.exc, TRUE)
                /\ UNCHANGED total_corpus
    /\ UNCHANGED <<clock, ticks, today_at_def, widgets, retirement, years_to_retire,
                   sip_n, sip_amount, total_investement, intrest>>

\* line 64 enters estimate_sip: lines 33-34
Line34 ==
    /\ pc = "line34"
    /\ calls' = Read
    /\ \E r \in {get_years_to_retire(retirement, clock)} :
           IF r.ok
           THEN /\ sip_n' = r.val * 12
                /\ pc' = "line35"
                /\ UNCHANGED <<page, exc>>
           ELSE /\ Except(r.exc, TRUE)
                /\ UNCHANGED sip_n
    /\ UNCHANGED <<clock, ticks, today_at_def, widgets, retirement, years_to_retire,
                   total_corpus, sip_amount, total_investement, intrest>>

\* lines 35-38 of estimate_sip, then lines 65-102: the totals and the display
Line35 ==
    /\ pc = "line35"
    /\ calls' = Read
    /\ \E m \in {get_total_corpus(retirement, clock)} :
       \E r \in {IF m.ok THEN sip_of(retirement, sip_n, m.val) ELSE m} :
           IF r.ok
           THEN \E invested \in {RatMul(RatMul(r.val, Rat(years_to_retire, 1)), Rat(12, 1))} :
                    /\ sip_amount' = r.val
                    /\ total_investement' = invested
                    /\ intrest' = RatDiff(total_corpus, invested)
                    /\ page' = "results"
                    /\ pc' = "done"
                    /\ UNCHANGED exc
           ELSE /\ Except(r.exc, TRUE)
                /\ UNCHANGED <<sip_amount, total_investement, intrest>>
    /\ UNCHANGED <<clock, ticks, today_at_def, widgets, retirement, years_to_retire,
                   total_corpus, sip_n>>

\* the user changes an input: Streamlit runs the script again from the top
Rerun ==
    /\ pc = "done"
    /\ pc' = "start"
    /\ today_at_def' = Null
    /\ widgets' = Null
    /\ retirement' = Null
    /\ calls' = <<>>
    /\ years_to_retire' = Unbound
    /\ total_corpus' = Null
    /\ sip_n' = Unbound
    /\ sip_amount' = Null
    /\ total_investement' = Null
    /\ intrest' = Null
    /\ page' = "running"
    /\ exc' = "none"
    /\ UNCHANGED <<clock, ticks>>

Next ==
    \/ Tick
    \/ ScriptStart
    \/ Construct
    \/ Line62
    \/ Line63
    \/ Line34
    \/ Line35
    \/ Rerun

Spec == Init /\ [][Next]_vars

\* the same script run on keyword values that did not pass through the form
NextCaller ==
    \/ Tick
    \/ CallerStart
    \/ Construct
    \/ Line62
    \/ Line63
    \/ Line34
    \/ Line35
    \/ Rerun

SpecCaller == Init /\ [][NextCaller]_vars

\* ------------------------------------------------------------------------
\* Properties
\* ------------------------------------------------------------------------
\* the horizon the k-th get_years_to_retire call of the run worked with
Horizon(k) == retirement.retire_age - calls[k].age

NoResult ==
    /\ page # "results"
    /\ sip_amount = Null /\ total_investement = Null /\ intrest = Null

\* C1: every call of get_years_to_retire whose horizon retire_age - age is <= 0
\* ends the run with the ValueError message and no result; otherwise the call
\* returns retire_age - age, which is > 0. So a run that shows results has
\* years_to_retire > 0, and retire_age equal to the current age is a failure.
C1_YearsToRetirePositive ==
    /\ \A k \in DOMAIN calls :
          Horizon(k) <= 0 =>
              /\ k = Len(calls)
              /\ pc = "done" /\ page = "error" /\ exc = "ValueError"
              /\ NoResult
    /\ years_to_retire # Unbound =>
          /\ Len(calls) >= 1
          /\ years_to_retire = Horizon(1)
          /\ years_to_retire > 0
    /\ sip_n # Unbound =>
          /\ Len(calls) >= 3
          /\ sip_n = Horizon(3) * 12
          /\ sip_n > 0
    /\ page = "results" => years_to_retire > 0

\* a run on a record whose retire_age equals the current age has failed
C1_Witness ==
    /\ pc = "done" /\ page = "error" /\ exc = "ValueError"
    /\ Len(calls) = 1
    /\ retirement.retire_age = calls[1].age

\* C2: every run that ends shows either the results or an error message; no
\* exception escapes the page.
C2_AllErrorsRecovered == pc = "done" => page \in {"results", "error"}

\* C3: with expected_return = 0, a positive horizon and withdrawal_rate > 0,
\* estimate_sip raises no division error and returns corpus / n_months.
C3_ZeroReturnBoundary ==
    ( /\ pc = "done" /\ Len(calls) = 4
      /\ retirement.expected_return = 0
      /\ retirement.withdrawal_rate > 0
      /\ Horizon(3) > 0 /\ Horizon(4) > 0 )
    => /\ exc # "ZeroDivisionError"
       /\ page = "results"
       /\ RatEq(sip_amount,
                RatDiv(get_total_corpus(retirement, calls[4].today).val, Rat(sip_n, 1)))

\* C4: with withdrawal_rate = 0 and a positive horizon, get_total_corpus is
\* guarded: the run ends with an error message, not a raw division by zero.
C4_ZeroWithdrawalGuarded ==
    ( /\ Len(calls) >= 2
      /\ retirement.withdrawal_rate = 0
      /\ Horizon(2) > 0 )
    => /\ exc # "ZeroDivisionError"
       /\ pc = "done" /\ page = "error"

\* a field of the keyword values lies outside its declared bound
OutOfBound(kw, today) ==
    \/ kw.monthly_expense <= 0
    \/ ~DateLeq(kw.dob, today)
    \/ kw.retire_age < MinRetireAge \/ kw.retire_age > 100
    \/ kw.inflation_rate < 0 \/ kw.inflation_rate > 100
    \/ kw.withdrawal_rate < 0 \/ kw.withdrawal_rate > 100
    \/ kw.expected_return < 0 \/ kw.expected_return > 100

\* C5: keyword values with any field outside its declared bound are rejected
\* by the construction, and none of the three calculations runs on them.
C5_ConstructionRejects ==
    (widgets # Null /\ OutOfBound(widgets, today_at_def)) =>
        /\ retirement = Null
        /\ calls = <<>>
        /\ pc \in {"line51", "done"}
        /\ pc = "done" => page = "exception" /\ exc = "ValidationError"

\* the birthdays (same month and day, in a later year) on or before today
BirthdaysReached(dob, today) ==
    Cardinality({y \in (dob.year + 1)..today.year :
                    DateLeq(Date(y, dob.month, dob.day), today)})

\* C6: for dob <= today, get_age returns today.year - dob.year, less 1 exactly
\* when (today.month, today.day) < (dob.month, dob.day); it is >= 0 and is the
\* number of birthdays reached on or before today.
C6_AgeInCompletedYears ==
    \A k \in DOMAIN calls :
        LET dob == retirement.dob
            t == calls[k].today
            early == t.month < dob.month \/ (t.month = dob.month /\ t.day < dob.day)
        IN  DateLeq(dob, t) =>
                /\ calls[k].age = t.year - dob.year - (IF early THEN 1 ELSE 0)
                /\ calls[k].age >= 0
                /\ calls[k].age = BirthdaysReached(dob, t)

\* get_age has been called on the birthday itself
C6_Witness ==
    \E k \in DOMAIN calls :
        /\ calls[k].today.month = retirement.dob.month
        /\ calls[k].today.day = retirement.dob.day
        /\ calls[k].age > 0

\* C8: once line 63 has run with a positive horizon, the corpus is defined and
\* ordered against the corpus at every other rate: not smaller at a lower
\* withdrawal rate, not larger at a lower inflation rate (0 included).
C8_CorpusMonotone ==
    (Len(calls) >= 2 /\ Horizon(2) > 0) =>
        /\ total_corpus # Null
        /\ \A r \in RateSamples :
              LET w == get_total_corpus([retirement EXCEPT !.withdrawal_rate = r],
                                        calls[2].today)
                  f == get_total_corpus([retirement EXCEPT !.inflation_rate = r],
                                        calls[2].today)
              IN  /\ w.ok /\ f.ok
                  /\ r > retirement.withdrawal_rate => RatLeq(w.val, total_corpus)
                  /\ r < retirement.withdrawal_rate => RatLeq(total_corpus, w.val)
                  /\ r > retirement.inflation_rate => RatLeq(total_corpus, f.val)
                  /\ r < retirement.inflation_rate => RatLeq(f.val, total_corpus)

\* C9: once estimate_sip has run with positive horizons and withdrawal_rate > 0,
\* the contribution is defined and ordered against the contribution at every
\* other expected return (0 included): not larger at a higher return.
C9_SipMonotone ==
    ( /\ pc = "done" /\ Len(calls) = 4
      /\ retirement.withdrawal_rate > 0
      /\ Horizon(3) > 0 /\ Horizon(4) > 0 )
    => /\ sip_amount # Null
       /\ \A r \in RateSamples :
             LET o == estimate_sip([retirement EXCEPT !.expected_return = r],
                                   calls[3].today, calls[4].today)
             IN  /\ o.ok
                 /\ r > retirement.expected_return => RatLeq(o.val, sip_amount)
                 /\ r < retirement.expected_return => RatLeq(sip_amount, o.val)

\* C10: a run that shows results used one horizon throughout: the displayed
\* years_to_retire, the horizons of both corpus computations and the n of
\* estimate_sip are the same number of years.
C10_SingleHorizon ==
    page = "results" =>
        /\ \A k \in DOMAIN calls : Horizon(k) = years_to_retire
        /\ sip_n = years_to_retire * 12

\* ------------------------------------------------------------------------
\* What does hold where C5, C8 and C9 fail
\* ------------------------------------------------------------------------
\* the fields the record itself bounds: every one but retire_age
OutOfFieldBound(kw, today) ==
    \/ kw.monthly_expense <= 0
    \/ ~DateLeq(kw.dob, today)
    \/ kw.inflation_rate < 0 \/ kw.inflation_rate > 100
    \/ kw.withdrawal_rate < 0 \/ kw.withdrawal_rate > 100
    \/ kw.expected_return < 0 \/ kw.expected_return > 100

\* keyword values outside a bound the record declares are rejected before any
\* calculation runs (checked under SpecCaller)
RejectsOutOfFieldBound ==
    (widgets # Null /\ OutOfFieldBound(widgets, today_at_def)) =>
        /\ retirement = Null
        /\ calls = <<>>
        /\ pc \in {"line51", "done"}
        /\ pc = "done" => page = "exception" /\ exc = "ValidationError"

\* the corpus is monotone over the rates above 0
CorpusMonotoneAboveZero ==
    (Len(calls) >= 2 /\ Horizon(2) > 0 /\ retirement.withdrawal_rate > 0) =>
        /\ total_corpus # Null
        /\ \A r \in RateSamples \ {0} :
              LET w == get_total_corpus([retirement EXCEPT !.withdrawal_rate = r],
                                        calls[2].today)
                  f == get_total_corpus([retirement EXCEPT !.inflation_rate = r],
                                        calls[2].today)
              IN  /\ w.ok /\ f.ok
                  /\ r > retirement.withdrawal_rate => RatLeq(w.val, total_corpus)
                  /\ r < retirement.withdrawal_rate => RatLeq(total_corpus, w.val)
                  /\ r > retirement.inflation_rate => RatLeq(total_corpus, f.val)
                  /\ r < retirement.inflation_rate => RatLeq(f.val, total_corpus)

\* the contribution is monotone over the expected returns above 0
SipMonotoneAboveZero ==
    ( /\ pc = "done" /\ Len(calls) = 4
      /\ retirement.withdrawal_rate > 0 /\ retirement.expected_return > 0
      /\ Horizon(3) > 0 /\ Horizon(4) > 0 )
    => /\ sip_amount # Null
       /\ \A r \in RateSamples \ {0} :
             LET o == estimate_sip([retirement EXCEPT !.expected_return = r],
                                   calls[3].today, calls[4].today)
             IN  /\ o.ok
                 /\ r > retirement.expected_return => RatLeq(o.val, sip_amount)
                 /\ r < retirement.expected_return => RatLeq(sip_amount, o.val)

====
